---- MODULE Spec2Model ----
(***************************************************************************)
(* Model of poetry's `inspect` console command                            *)
(* (src/poetry/console/commands/inspect.py): package resolution, metadata *)
(* gathering, property validation and the four renderers.                 *)
(*                                                                         *)
(* Text is a sequence of atoms.  Every datum that the command measures or *)
(* slices (property values, package names) is held one character per      *)
(* atom, so len() and [:n] are exact; the fixed fragments of the f-string *)
(* templates are single atoms.  Style tags (<b>, <info>, ...) are kept as *)
(* the `style` field of an output line, not as characters.                *)
(***************************************************************************)
EXTENDS Naturals, Sequences, FiniteSets, TLC

VARIABLES
    dependency,        \* self.argument("dependency"): text, <<>> when absent
    locked,            \* locked_repository.packages, in iteration order
    root,              \* self.poetry.package
    dist,              \* what Distribution.from_name would find for the package
    opts,              \* the flags --json, --compact, --list-properties
    props,             \* self.option("property"): sequence of requested names
    pc,                \* position inside handle()
    pkg,               \* the resolved package
    metadata,          \* ordered mapping returned by inspect_metadata
    display_metadata,  \* ordered mapping filled by the validation loop
    i,                 \* index of the next requested property to validate
    out,               \* lines written with self.line / the table (stdout)
    err,               \* what was written to the error stream
    exit_code,         \* return value of handle(), meaningful once pc = "done"
    exc,               \* exception propagated out of handle(), NoExc if none
    ran                \* the renderers that have written, in order

vars == <<dependency, locked, root, dist, opts, props, pc, pkg, metadata,
          display_metadata, i, out, err, exit_code, exc, ran>>

----------------------------------------------------------------------------
(* Module constants of inspect.py *)

DISPLAY_GAP_FOR_SAME_KEY == <<"\n", " ", " ", " ">>

MAX_DISPLAY_LINE_LENGTH == 79

SKIP_PROPERTIES == {"description", "summary", "metadata_version"}

URL_PROPERTIES == {"project_url"}

LONG_PROPERTIES == {"license"}

----------------------------------------------------------------------------
(* Bounds of the explored inputs *)

MaxProps == 3      \* number of --property options on the command line
MaxJson == 2       \* number of keys in the distribution's metadata.json
MaxEps == 1        \* number of entry points of the distribution
MaxLocked == 3     \* number of packages in the lock file

----------------------------------------------------------------------------
(* Characters and strings *)

LowerChars == {"a", "b", "c", "d", "e", "f", "g", "h", "i", "j", "k", "l", "m", "n", "o", "p", "q", "r", "s", "t", "u", "v", "w", "x", "y", "z"}

UpperOf ==
    ("a" :> "A") @@ ("b" :> "B") @@ ("c" :> "C") @@ ("d" :> "D") @@ ("e" :> "E") @@ ("f" :> "F") @@ ("g" :> "G")
    @@ ("h" :> "H") @@ ("i" :> "I") @@ ("j" :> "J") @@ ("k" :> "K") @@ ("l" :> "L") @@ ("m" :> "M") @@ ("n" :> "N")
    @@ ("o" :> "O") @@ ("p" :> "P") @@ ("q" :> "Q") @@ ("r" :> "R") @@ ("s" :> "S") @@ ("t" :> "T") @@ ("u" :> "U")
    @@ ("v" :> "V") @@ ("w" :> "W") @@ ("x" :> "X") @@ ("y" :> "Y") @@ ("z" :> "Z")

LowerOf(c) ==
    IF \E l \in LowerChars : UpperOf[l] = c
    THEN CHOOSE l \in LowerChars : UpperOf[l] = c
    ELSE c

UpperChar(c) == IF c \in LowerChars THEN UpperOf[c] ELSE c

\* The characters of a property name.
Chars(key) ==
    CASE
       key = "name" -> <<"n", "a", "m", "e">>
    [] key = "version" -> <<"v", "e", "r", "s", "i", "o", "n">>
    [] key = "package_description" -> <<"p", "a", "c", "k", "a", "g", "e", "_", "d", "e", "s", "c", "r", "i", "p", "t", "i", "o", "n">>
    [] key = "description" -> <<"d", "e", "s", "c", "r", "i", "p", "t", "i", "o", "n">>
    [] key = "summary" -> <<"s", "u", "m", "m", "a", "r", "y">>
    [] key = "metadata_version" -> <<"m", "e", "t", "a", "d", "a", "t", "a", "_", "v", "e", "r", "s", "i", "o", "n">>
    [] key = "author" -> <<"a", "u", "t", "h", "o", "r">>
    [] key = "license" -> <<"l", "i", "c", "e", "n", "s", "e">>
    [] key = "project_url" -> <<"p", "r", "o", "j", "e", "c", "t", "_", "u", "r", "l">>
    [] key = "entry_points" -> <<"e", "n", "t", "r", "y", "_", "p", "o", "i", "n", "t", "s">>
    [] key = "nope" -> <<"n", "o", "p", "e">>

\* str.lower()
StrLower(s) == [n \in DOMAIN s |-> LowerOf(s[n])]

\* str.replace(old, new) for single characters
StrReplace(s, old, new) == [n \in DOMAIN s |-> IF s[n] = old THEN new ELSE s[n]]

\* str.capitalize(): first character upper-cased, the rest lower-cased
StrCapitalize(s) ==
    [n \in DOMAIN s |-> IF n = 1 THEN UpperChar(s[n]) ELSE LowerOf(s[n])]

\* sep.join(parts) for a sequence of texts
RECURSIVE StrJoin(_, _)
StrJoin(sep, parts) ==
    IF parts = <<>> THEN <<>>
    ELSE IF Len(parts) = 1 THEN parts[1]
    ELSE parts[1] \o sep \o StrJoin(sep, Tail(parts))

\* s[:n]
StrPrefix(s, n) == SubSeq(s, 1, IF Len(s) < n THEN Len(s) ELSE n)

\* A text of n characters, no two neighbours alike.
Str(n) == [k \in 1..n |-> IF k % 2 = 1 THEN "x" ELSE "y"]

----------------------------------------------------------------------------
(* Ordered mappings (Python dict): a sequence of [k, v] entries with      *)
(* distinct keys, in insertion order.                                      *)

Keys(d) == [n \in DOMAIN d |-> d[n].k]

KeySet(d) == {d[n].k : n \in DOMAIN d}

HasKey(d, key) == \E n \in DOMAIN d : d[n].k = key

Get(d, key) == d[CHOOSE n \in DOMAIN d : d[n].k = key].v

\* A reassigned key dropped and appended anew
DictSet_MoveToEnd(d, key, value) ==
    Append(SelectSeq(d, LAMBDA e : e.k # key), [k |-> key, v |-> value])

\* d[key] = value: an existing key keeps its position, a new key goes last
DictSet(d, key, value) ==
    IF HasKey(d, key)
    THEN [n \in DOMAIN d |-> IF d[n].k = key THEN [k |-> key, v |-> value] ELSE d[n]]
    ELSE Append(d, [k |-> key, v |-> value])

\* d.update(e): the entries of e are assigned in e's order
RECURSIVE DictUpdate(_, _)
DictUpdate(d, e) ==
    IF e = <<>> THEN d
    ELSE DictUpdate(DictSet(d, e[1].k, e[1].v), Tail(e))

\* A property value is a string or a list of strings (isinstance(value, list)).
Scalar(t) == [list |-> FALSE, v |-> t]

List(ts) == [list |-> TRUE, v |-> ts]

----------------------------------------------------------------------------
(* Module-level helpers of inspect.py *)

\* url.split(","): the text before and after the comma of a "name,url" item
UrlName(url) == SubSeq(url, 1, (CHOOSE n \in DOMAIN url : url[n] = ",") - 1)

UrlTarget(url) == SubSeq(url, (CHOOSE n \in DOMAIN url : url[n] = ",") + 1, Len(url))

display_pretty_urls(urls) ==
    StrJoin(DISPLAY_GAP_FOR_SAME_KEY,
            [n \in DOMAIN urls |-> UrlName(urls[n]) \o <<" ", "-">> \o UrlTarget(urls[n])])

display_pretty_list(items) == StrJoin(DISPLAY_GAP_FOR_SAME_KEY, items)

prettify(s) == StrCapitalize(StrReplace(Chars(s), "_", " "))

----------------------------------------------------------------------------
(* Output lines *)

Line(style, text) == [style |-> style, text |-> text]

----------------------------------------------------------------------------
(* InspectCommand._get_package_from_dependency *)

\* packaging.utils.canonicalize_name: runs of "-", "_", "." become one "-",
\* then the name is lower-cased
IsSeparator(c) == c \in {"-", "_", "."}

RECURSIVE CollapseSeparators(_)
CollapseSeparators(s) ==
    IF s = <<>> THEN <<>>
    ELSE IF IsSeparator(s[1])
         THEN IF Len(s) > 1 /\ IsSeparator(s[2])
              THEN CollapseSeparators(Tail(s))
              ELSE <<"-">> \o CollapseSeparators(Tail(s))
         ELSE <<s[1]>> \o CollapseSeparators(Tail(s))

canonicalize_name(s) == StrLower(CollapseSeparators(s))

\* Package.__eq__ (poetry-core): same package name and same version
PackageEq(a, b) == a.name = b.name /\ a.pretty_version = b.pretty_version

\* for locked in locked_packages: if locked.name == canonicalized_package: ... break
FirstLocked(packages, canonical) ==
    IF \E n \in DOMAIN packages : packages[n].name = canonical
    THEN CHOOSE n \in DOMAIN packages :
            /\ packages[n].name = canonical
            /\ \A m \in 1..(n - 1) : packages[m].name # canonical
    ELSE 0

\* The package the search leaves in `pkg`
SearchLocked(dep, packages, rootpkg) ==
    IF FirstLocked(packages, canonicalize_name(dep)) = 0
    THEN rootpkg
    ELSE packages[FirstLocked(packages, canonicalize_name(dep))]

\* if pkg == self.poetry.package: raise ValueError(...)
NotFound(found, rootpkg) == PackageEq(found, rootpkg)

\* [raised, pkg]: the outcome of _get_package_from_dependency(dep)
get_package_from_dependency(dep, packages, rootpkg) ==
    IF dep = <<>>
    THEN [raised |-> FALSE, pkg |-> rootpkg]
    ELSE [raised |-> NotFound(SearchLocked(dep, packages, rootpkg), rootpkg),
          pkg |-> SearchLocked(dep, packages, rootpkg)]

----------------------------------------------------------------------------
(* InspectCommand.inspect_metadata and get_entry_points *)

get_entry_points(d) ==
    [n \in DOMAIN d.entry_points |->
        d.entry_points[n].name \o <<" source: ">> \o d.entry_points[n].value]

SeedMetadata_NoDescription(package) ==
    << [k |-> "name", v |-> Scalar(package.pretty_name)],
       [k |-> "version", v |-> Scalar(package.pretty_version)] >>

SeedMetadata(package) ==
    << [k |-> "name", v |-> Scalar(package.pretty_name)],
       [k |-> "version", v |-> Scalar(package.pretty_version)],
       [k |-> "package_description", v |-> Scalar(package.description)] >>

\* if hasattr(d.metadata, "json"): metadata.update(d.metadata.json)
MergeDistribution(md, d) == IF d.has_json THEN DictUpdate(md, d.json) ELSE md

AttachEntryPoints_OnlyWithJson(md, d) ==
    IF d.has_json /\ get_entry_points(d) # <<>>
    THEN DictSet(md, "entry_points", List(get_entry_points(d)))
    ELSE md

\* if ep := self.get_entry_points(d): metadata["entry_points"] = ep
AttachEntryPoints(md, d) ==
    IF get_entry_points(d) # <<>>
    THEN DictSet(md, "entry_points", List(get_entry_points(d)))
    ELSE md

\* The mapping inspect_metadata returns
inspect_metadata(package, d) ==
    IF ~d.found
    THEN SeedMetadata(package)
    ELSE AttachEntryPoints(MergeDistribution(SeedMetadata(package), d), d)

\* The lines inspect_metadata writes with self.line
inspect_notices(package, d) ==
    IF ~d.found
    THEN << Line("warning", <<"Could not find package metadata for name: ">>
                            \o package.name \o <<": showing basic info">>) >>
    ELSE IF ~d.has_json
    THEN << Line("error", <<"Could not find distribution metadata: ">> \o package.name) >>
    ELSE <<>>

----------------------------------------------------------------------------
(* Renderers *)

\* The cut taken one character early
Truncate_AtLimit(prop, items) ==
    IF prop \in LONG_PROPERTIES /\ Len(items) >= MAX_DISPLAY_LINE_LENGTH
    THEN StrPrefix(items, MAX_DISPLAY_LINE_LENGTH)
         \o <<"... (use -p ", prop, " to see full ", prop, ")">>
    ELSE items

\* The long-property cut of build_rows_from_metadata
Truncate(prop, items) ==
    IF prop \in LONG_PROPERTIES /\ Len(items) > MAX_DISPLAY_LINE_LENGTH
    THEN StrPrefix(items, MAX_DISPLAY_LINE_LENGTH)
         \o <<"... (use -p ", prop, " to see full ", prop, ")">>
    ELSE items

\* The text of a row's value before the long-property cut
RowText(prop, value) ==
    IF prop \in URL_PROPERTIES
    THEN IF value.list THEN display_pretty_urls(value.v) ELSE value.v
    ELSE IF value.list THEN display_pretty_list(value.v) ELSE value.v

\* if prop in SKIP_PROPERTIES: continue
SkipRow(prop) == prop \in SKIP_PROPERTIES

RECURSIVE build_rows_from_metadata(_)
build_rows_from_metadata(data) ==
    IF data = <<>> THEN <<>>
    ELSE IF SkipRow(data[1].k)
    THEN build_rows_from_metadata(Tail(data))
    ELSE << [key |-> prettify(data[1].k),
             value |-> <<" : ">> \o Truncate(data[1].k, RowText(data[1].k, data[1].v))] >>
         \o build_rows_from_metadata(Tail(data))

\* self.table(rows=rows, style="compact").render(): one output line per row
TableLines(rows) ==
    [n \in DOMAIN rows |-> Line("row", rows[n].key \o rows[n].value)]

\* The two `continue` conditions of display_normal
SkipBlock(key, requested) ==
    \/ key \in SKIP_PROPERTIES /\ requested = <<>>
    \/ requested # <<>> /\ ~(\E n \in DOMAIN requested : requested[n] = key)

\* A block whose list form lacks the closing blank line
Block_NoBlankAfterList(key, value) ==
    << Line("b_info", prettify(key)) >>
    \o (IF value.list
        THEN [n \in DOMAIN value.v |-> Line("c1", <<" - ">> \o value.v[n])]
        ELSE << Line("c2", <<" ">> \o value.v), Line("", <<>>) >>)

\* The lines of one property block
Block(key, value) ==
    << Line("b_info", prettify(key)) >>
    \o (IF value.list
        THEN [n \in DOMAIN value.v |-> Line("c1", <<" - ">> \o value.v[n])]
        ELSE << Line("c2", <<" ">> \o value.v) >>)
    \o << Line("", <<>>) >>

RECURSIVE display_normal(_, _)
display_normal(data, requested) ==
    IF data = <<>> THEN <<>>
    ELSE (IF SkipBlock(data[1].k, requested) THEN <<>> ELSE Block(data[1].k, data[1].v))
         \o display_normal(Tail(data), requested)

\* The listing with the skip-list applied
list_properties_Skipping(package, md) ==
    << Line("b", <<"Available properties for ">> \o package.name \o <<" are:">>),
       Line("info", StrJoin(<<"\n">>,
                            [n \in DOMAIN SelectSeq(md, LAMBDA e : e.k \notin SKIP_PROPERTIES) |->
                                <<"- ", SelectSeq(md, LAMBDA e : e.k \notin SKIP_PROPERTIES)[n].k>>])) >>

\* self.line(...) of the --list-properties branch
list_properties(package, md) ==
    << Line("b", <<"Available properties for ">> \o package.name \o <<" are:">>),
       Line("info", StrJoin(<<"\n">>, [n \in DOMAIN md |-> <<"- ", md[n].k>>])) >>

----------------------------------------------------------------------------
(* InspectCommand.handle, one action per step *)

NoPackage == [name |-> <<>>, pretty_name |-> <<>>, pretty_version |-> <<>>, description |-> <<>>]

NoExc == [type |-> "none", text |-> <<>>]

\* pkg = self._get_package_from_dependency(dependency)
GetPackage ==
    /\ pc = "start"
    /\ LET r == get_package_from_dependency(dependency, locked, root)
       IN IF r.raised
          THEN /\ pc' = "raised"
               /\ exc' = [type |-> "ValueError",
                          text |-> <<"Package '">> \o dependency \o <<"' not found">>]
               /\ pkg' = pkg
          ELSE /\ pc' = "resolved"
               /\ pkg' = r.pkg
               /\ exc' = exc
    /\ UNCHANGED <<dependency, locked, root, dist, opts, props, metadata,
                   display_metadata, i, out, err, exit_code, ran>>

\* metadata = self.inspect_metadata(pkg)
InspectMetadata ==
    /\ pc = "resolved"
    /\ metadata' = inspect_metadata(pkg, dist)
    /\ out' = out \o inspect_notices(pkg, dist)
    /\ pc' = "gathered"
    /\ UNCHANGED <<dependency, locked, root, dist, opts, props, pkg,
                   display_metadata, i, err, exit_code, exc, ran>>

\* if self.option("list-properties"): ... return 0
ListProperties ==
    /\ pc = "gathered"
    /\ opts.list_properties
    /\ out' = out \o list_properties(pkg, metadata)
    /\ ran' = Append(ran, "list_properties")
    /\ exit_code' = 0
    /\ pc' = "done"
    /\ UNCHANGED <<dependency, locked, root, dist, opts, props, pkg, metadata,
                   display_metadata, i, err, exc>>

\* The validation loop has gone through every requested name
ValidationDone(idx, requested) == idx > Len(requested)

\* Availability judged after the skip-list
Available_AfterSkipList(md, prop) == HasKey(md, prop) /\ prop \notin SKIP_PROPERTIES

\* prop in available_properties (the keys of metadata)
Available(md, prop) == HasKey(md, prop)

\* One iteration of `for prop in props`
CheckProperty ==
    /\ pc = "gathered"
    /\ ~opts.list_properties
    /\ ~ValidationDone(i, props)
    /\ IF ~Available(metadata, props[i])
       THEN /\ err' = Append(err, Line("error", <<"Property '", props[i], "' not available.">>))
            /\ exit_code' = 1
            /\ pc' = "done"
            /\ UNCHANGED <<display_metadata, i>>
       ELSE /\ display_metadata' = DictSet(display_metadata, props[i], Get(metadata, props[i]))
            /\ i' = i + 1
            /\ UNCHANGED <<err, exit_code, pc>>
    /\ UNCHANGED <<dependency, locked, root, dist, opts, props, pkg, metadata,
                   out, exc, ran>>

\* display_metadata = display_metadata or metadata
Displayed(selected, md) == IF selected = <<>> THEN md ELSE selected

\* The chain with --compact tested before --json
Renderer_CompactFirst(o) ==
    IF o.compact THEN "compact" ELSE IF o.json THEN "json" ELSE "normal"

\* The if / elif / else chain that follows the validation loop
Renderer(o) ==
    IF o.json THEN "json" ELSE IF o.compact THEN "compact" ELSE "normal"

\* json.dump(display_metadata, fp=sys.stderr): the object's members, in order
JsonDump(data) ==
    [style |-> "json",
     text |-> [n \in DOMAIN data |-> [member |-> data[n].k, value |-> data[n].v.v]]]

RenderJson ==
    /\ pc = "gathered"
    /\ ~opts.list_properties
    /\ ValidationDone(i, props)
    /\ Renderer(opts) = "json"
    /\ err' = Append(err, JsonDump(Displayed(display_metadata, metadata)))
    /\ ran' = Append(ran, "json")
    /\ exit_code' = 0
    /\ pc' = "done"
    /\ UNCHANGED <<dependency, locked, root, dist, opts, props, pkg, metadata,
                   display_metadata, i, out, exc>>

RenderCompact ==
    /\ pc = "gathered"
    /\ ~opts.list_properties
    /\ ValidationDone(i, props)
    /\ Renderer(opts) = "compact"
    /\ out' = out \o TableLines(build_rows_from_metadata(Displayed(display_metadata, metadata)))
    /\ ran' = Append(ran, "compact")
    /\ exit_code' = 0
    /\ pc' = "done"
    /\ UNCHANGED <<dependency, locked, root, dist, opts, props, pkg, metadata,
                   display_metadata, i, err, exc>>

RenderNormal ==
    /\ pc = "gathered"
    /\ ~opts.list_properties
    /\ ValidationDone(i, props)
    /\ Renderer(opts) = "normal"
    /\ out' = out \o display_normal(Displayed(display_metadata, metadata), props)
    /\ ran' = Append(ran, "normal")
    /\ exit_code' = 0
    /\ pc' = "done"
    /\ UNCHANGED <<dependency, locked, root, dist, opts, props, pkg, metadata,
                   display_metadata, i, err, exc>>

Next ==
    \/ GetPackage
    \/ InspectMetadata
    \/ ListProperties
    \/ CheckProperty
    \/ RenderJson
    \/ RenderCompact
    \/ RenderNormal

----------------------------------------------------------------------------
(* Explored inputs *)

\* Sequences of at most n elements of S
SeqsUpTo(S, n) == UNION {[1..m -> S] : m \in 0..n}

Root ==
    [name |-> <<"r">>, pretty_name |-> <<"R">>, pretty_version |-> <<"1">>,
     description |-> <<"d">>]

\* Packages a lock file may hold: two with one canonical name, one that
\* compares equal to the root package, one with the root's name only.
LockedPackages ==
    { [name |-> <<"a", "-", "b">>, pretty_name |-> <<"A", "_", "b">>,
       pretty_version |-> <<"1">>, description |-> <<"p">>],
      [name |-> <<"a", "-", "b">>, pretty_name |-> <<"a", "-", "b">>,
       pretty_version |-> <<"2">>, description |-> <<>>],
      [name |-> <<"r">>, pretty_name |-> <<"r">>,
       pretty_version |-> <<"1">>, description |-> <<"q">>],
      [name |-> <<"r">>, pretty_name |-> <<"r">>,
       pretty_version |-> <<"2">>, description |-> <<"q">>] }

Dependencies ==
    { <<>>, <<"A", ".", "_", "B">>, <<"a", "-", "b">>, <<"R">>, <<"z">> }

EntryPoints ==
    { [name |-> <<"e">>, value |-> <<"m", ":", "f">>],
      [name |-> <<"g">>, value |-> <<"n">>] }

\* Members a distribution's metadata.json may have
JsonEntries ==
    { [k |-> "name", v |-> Scalar(<<"N">>)],
      [k |-> "summary", v |-> Scalar(<<"s">>)],
      [k |-> "metadata_version", v |-> Scalar(<<"2", ".", "1">>)],
      [k |-> "license", v |-> Scalar(Str(MAX_DISPLAY_LINE_LENGTH))],
      [k |-> "license", v |-> Scalar(Str(MAX_DISPLAY_LINE_LENGTH + 1))],
      [k |-> "license", v |-> List(<<Str(40), Str(40)>>)],
      [k |-> "author", v |-> Scalar(Str(MAX_DISPLAY_LINE_LENGTH + 1))],
      [k |-> "author", v |-> List(<<<<"u">>, <<"v">>>>)],
      [k |-> "project_url", v |-> List(<<<<"h", ",", "u">>, <<"d", ",", "w">>>>)] }

DistinctKeys(d) == \A m, n \in DOMAIN d : d[m].k = d[n].k => m = n

JsonDocuments(n) == {d \in SeqsUpTo(JsonEntries, n) : DistinctKeys(d)}

NoDistribution == [found |-> FALSE, has_json |-> FALSE, json |-> <<>>, entry_points |-> <<>>]

Distributions(nj, ne) ==
    {NoDistribution}
    \cup {[found |-> TRUE, has_json |-> FALSE, json |-> <<>>, entry_points |-> e] :
            e \in SeqsUpTo(EntryPoints, ne)}
    \cup {[found |-> TRUE, has_json |-> TRUE, json |-> j, entry_points |-> e] :
            j \in JsonDocuments(nj), e \in SeqsUpTo(EntryPoints, ne)}

\* A few distributions for the runs that vary the command line
SomeDistributions ==
    { NoDistribution,
      [found |-> TRUE, has_json |-> FALSE, json |-> <<>>,
       entry_points |-> <<[name |-> <<"e">>, value |-> <<"m", ":", "f">>]>>],
      [found |-> TRUE, has_json |-> TRUE,
       json |-> << [k |-> "summary", v |-> Scalar(<<"s">>)],
                   [k |-> "name", v |-> Scalar(<<"N">>)],
                   [k |-> "license", v |-> Scalar(Str(MAX_DISPLAY_LINE_LENGTH + 1))],
                   [k |-> "author", v |-> List(<<<<"u">>, <<"v">>>>)] >>,
       entry_points |-> <<>>] }

PropertyNames == {"name", "summary", "license", "nope"}

AllFlags ==
    [json : BOOLEAN, compact : BOOLEAN, list_properties : BOOLEAN]

SingleFlags ==
    {o \in AllFlags : Cardinality({f \in {"json", "compact", "list_properties"} : o[f]}) <= 1}

InitWith(deps, lockeds, dists, flags, requests) ==
    /\ dependency \in deps
    /\ locked \in lockeds
    /\ root = Root
    /\ dist \in dists
    /\ opts \in flags
    /\ props \in requests
    /\ pc = "start"
    /\ pkg = NoPackage
    /\ metadata = <<>>
    /\ display_metadata = <<>>
    /\ i = 1
    /\ out = <<>>
    /\ err = <<>>
    /\ exit_code = 0
    /\ exc = NoExc
    /\ ran = <<>>

\* Every flag combination and every request list, a few distributions
Init ==
    InitWith({<<>>, <<"z">>}, {<<>>}, SomeDistributions, AllFlags,
             SeqsUpTo(PropertyNames, MaxProps))

Spec == Init /\ [][Next]_vars

\* Every lock file and dependency argument
InitResolve ==
    InitWith(Dependencies, SeqsUpTo(LockedPackages, MaxLocked),
             {NoDistribution}, AllFlags, {<<>>, <<"nope">>})

SpecResolve == InitResolve /\ [][Next]_vars

\* Every distribution
InitGather ==
    InitWith({<<>>}, {<<>>}, Distributions(MaxJson, MaxEps), SingleFlags,
             {<<>>, <<"license">>, <<"summary", "name">>, <<"nope">>})

SpecGather == InitGather /\ [][Next]_vars

----------------------------------------------------------------------------
(* Vocabulary of the properties *)

Returned == pc = "done"

Gathered == pc \in {"gathered", "done"}

NoFlags == ~opts.json /\ ~opts.compact /\ ~opts.list_properties

SeededKeys == <<"name", "version", "package_description">>

IsMissing(n) == props[n] \notin KeySet(metadata)

SomeMissing == \E n \in DOMAIN props : IsMissing(n)

FirstMissing ==
    props[CHOOSE n \in DOMAIN props : IsMissing(n) /\ \A m \in 1..(n - 1) : ~IsMissing(m)]

MissingLine(prop) == Line("error", <<"Property '", prop, "' not available.">>)

IsNotice(l) == l.style \in {"warning", "error"}

IsRendered(l) == ~IsNotice(l)

\* What the renderers wrote to the output, without the notices of the gathering
Rendered == SelectSeq(out, IsRendered)

IsJsonDocument(l) == l.style = "json"

\* The mapping handed to the renderer
Shown == IF display_metadata = <<>> THEN metadata ELSE display_metadata

NotSkipped(e) == e.k \notin {"description", "summary", "metadata_version"}

\* The lines of a text, cut at its newlines
RECURSIVE SplitLines(_)
SplitLines(t) ==
    IF \E n \in DOMAIN t : t[n] = "\n"
    THEN LET n == CHOOSE n \in DOMAIN t : t[n] = "\n" /\ \A m \in 1..(n - 1) : t[m] # "\n"
         IN <<SubSeq(t, 1, n - 1)>> \o SplitLines(SubSeq(t, n + 1, Len(t)))
    ELSE <<t>>

----------------------------------------------------------------------------
\* C1 (as written): whenever resolution succeeds and some requested property
\* is not a key of the gathered metadata, whatever flags are set, the command
\* exits with 1 and the error stream holds exactly one line, naming the first
\* missing property.
C1_MissingPropertyFailsWhateverFlags ==
    (Returned /\ SomeMissing)
        => (exit_code = 1 /\ err = <<MissingLine(FirstMissing)>>)

\* C1 (amended): without --list-properties a missing requested property makes
\* the command exit with 1 after writing exactly one error line naming the
\* first missing property, with or without --json and --compact; with
\* --list-properties the request list is not validated: exit 0, no error line.
C1_MissingPropertyFails ==
    (Returned /\ SomeMissing)
        => IF opts.list_properties
           THEN exit_code = 0 /\ err = <<>>
           ELSE exit_code = 1 /\ err = <<MissingLine(FirstMissing)>>

C1_Witness ==
    /\ Returned /\ exit_code = 1
    /\ opts.json /\ opts.compact /\ ~opts.list_properties
    /\ Len(props) = 2 /\ ~IsMissing(1) /\ IsMissing(2)
    /\ props[1] \in SKIP_PROPERTIES

----------------------------------------------------------------------------
(* Whether a key of the shown mapping reached the reader, per renderer *)

InNormalOutput(key) ==
    \E n \in DOMAIN Rendered :
        Rendered[n].style = "b_info" /\ Rendered[n].text = prettify(key)

InCompactOutput(key) ==
    \E n \in DOMAIN Rendered :
        /\ Rendered[n].style = "row"
        /\ Len(Rendered[n].text) >= Len(prettify(key))
        /\ SubSeq(Rendered[n].text, 1, Len(prettify(key))) = prettify(key)

InJsonOutput(key) ==
    \E n \in DOMAIN err :
        /\ IsJsonDocument(err[n])
        /\ \E m \in DOMAIN err[n].text : err[n].text[m].member = key

IsShown(key) ==
    IF ran = <<"normal">> THEN InNormalOutput(key)
    ELSE IF ran = <<"compact">> THEN InCompactOutput(key)
    ELSE InJsonOutput(key)

\* C2: when every requested property is a key of the metadata, each requested
\* key of the skip-list is rendered, in Normal, Compact and JSON mode alike.
C2_FilterOverridesSkipList ==
    (Returned /\ exit_code = 0 /\ ~opts.list_properties /\ props # <<>>)
        => \A n \in DOMAIN props :
              props[n] \in {"description", "summary", "metadata_version"}
                  => IsShown(props[n])

----------------------------------------------------------------------------
(* What _get_package_from_dependency is to return *)

Matches == {n \in DOMAIN locked : locked[n].name = canonicalize_name(dependency)}

FirstMatch == locked[CHOOSE n \in Matches : \A m \in Matches : n <= m]

\* C3: no dependency name gives the root package; a name gives the first
\* locked package with that canonical name, and the not-found error (carrying
\* the name) is raised exactly when no locked package has that canonical name.
C3_ResolutionContract ==
    (pc # "start")
        => IF dependency = <<>>
           THEN pc # "raised" /\ pkg = root
           ELSE /\ (pc = "raised") <=> (Matches = {})
                /\ pc = "raised" => exc.text = <<"Package '">> \o dependency \o <<"' not found">>
                /\ pc # "raised" => pkg = FirstMatch

----------------------------------------------------------------------------
\* C4: for a package without installed distribution, Normal mode with no
\* property filter writes the "Could not find package metadata" warning, then
\* exactly the blocks Name, Version, Package description (pretty_name,
\* pretty_version, description), each closed by one blank line, and nothing
\* else; the command exits with 0 and the record has exactly the seeded keys.
C4_SeededBlocksAfterWarning ==
    (Returned /\ ~dist.found /\ NoFlags /\ props = <<>>)
        => /\ exit_code = 0
           /\ err = <<>>
           /\ Keys(metadata) = SeededKeys
           /\ out = << Line("warning", <<"Could not find package metadata for name: ">>
                                       \o pkg.name \o <<": showing basic info">>),
                       Line("b_info", <<"N", "a", "m", "e">>),
                       Line("c2", <<" ">> \o pkg.pretty_name),
                       Line("", <<>>),
                       Line("b_info", <<"V", "e", "r", "s", "i", "o", "n">>),
                       Line("c2", <<" ">> \o pkg.pretty_version),
                       Line("", <<>>),
                       Line("b_info", <<"P", "a", "c", "k", "a", "g", "e", " ", "d", "e", "s", "c", "r", "i", "p", "t", "i", "o", "n">>),
                       Line("c2", <<" ">> \o pkg.description),
                       Line("", <<>>) >>

C4_Witness ==
    /\ Returned /\ ~dist.found /\ NoFlags /\ props = <<>>
    /\ pkg # root /\ pkg.description = <<>>
    /\ Len(out) = 10

----------------------------------------------------------------------------
(* The blocks Normal mode is to print *)

RECURSIVE Dedup(_)
Dedup(s) ==
    IF s = <<>> THEN <<>>
    ELSE <<s[1]>> \o Dedup(SelectSeq(Tail(s), LAMBDA x : x # s[1]))

\* Without filter the keys outside the skip-list in record order, with a
\* filter the requested keys
ExpectedEntries ==
    IF props = <<>>
    THEN SelectSeq(metadata, NotSkipped)
    ELSE [n \in DOMAIN Dedup(props) |->
            [k |-> Dedup(props)[n], v |-> Get(metadata, Dedup(props)[n])]]

BlockLen(e) == 2 + (IF e.v.list THEN Len(e.v.v) ELSE 1)

\* Number of lines printed before the n-th block
RECURSIVE Offset(_, _)
Offset(entries, n) ==
    IF n <= 1 THEN 0 ELSE Offset(entries, n - 1) + BlockLen(entries[n - 1])

\* C5: in Normal mode the printed blocks are exactly the record's keys outside
\* the skip-list, in record order (the requested keys when --property is
\* given); a block is the prettified key, then one " - " line per element of
\* a sequence or one " " line for a scalar, then exactly one blank line.
C5_NormalBlocks ==
    (Returned /\ ran = <<"normal">>)
        => LET E == ExpectedEntries
           IN /\ Len(Rendered) = Offset(E, Len(E) + 1)
              /\ \A n \in DOMAIN E :
                    LET at == Offset(E, n)
                        value == E[n].v
                    IN /\ Rendered[at + 1] = Line("b_info", prettify(E[n].k))
                       /\ IF value.list
                          THEN \A m \in DOMAIN value.v :
                                  Rendered[at + 1 + m] = Line("c1", <<" - ">> \o value.v[m])
                          ELSE Rendered[at + 2] = Line("c2", <<" ">> \o value.v)
                       /\ Rendered[at + BlockLen(E[n])] = Line("", <<>>)

C5_Witness ==
    /\ Returned /\ ran = <<"normal">> /\ props = <<>>
    /\ HasKey(metadata, "summary")
    /\ HasKey(metadata, "entry_points")
    /\ \E n \in DOMAIN metadata : metadata[n].k = "author" /\ metadata[n].v.list

----------------------------------------------------------------------------
\* C6: --list-properties prints a header naming the resolved package, then
\* one "- key" line per key of the gathered record in record order, skip-list
\* keys included and the --property filter ignored, prints no value, and
\* exits with 0.
C6_ListProperties ==
    (Returned /\ opts.list_properties)
        => /\ exit_code = 0
           /\ err = <<>>
           /\ Len(Rendered) = 2
           /\ Rendered[1].text = <<"Available properties for ">> \o pkg.name \o <<" are:">>
           /\ SplitLines(Rendered[2].text) = [n \in DOMAIN metadata |-> <<"- ", metadata[n].k>>]

C6_Witness ==
    /\ Returned /\ opts.list_properties
    /\ props = <<"nope">>
    /\ HasKey(metadata, "summary") /\ HasKey(metadata, "license")
    /\ Len(metadata) = 5

----------------------------------------------------------------------------
(* Compact rows *)

Rows == SelectSeq(out, LAMBDA l : l.style = "row")

RowEntries == SelectSeq(Shown, NotSkipped)

\* The text of a value: a list is joined with a newline and three blanks
RECURSIVE Joined(_)
Joined(items) ==
    IF items = <<>> THEN <<>>
    ELSE IF Len(items) = 1 THEN items[1]
    ELSE items[1] \o <<"\n", " ", " ", " ">> \o Joined(Tail(items))

ValueText(e) ==
    IF ~e.v.list THEN e.v.v
    ELSE IF e.k = "project_url" THEN display_pretty_urls(e.v.v)
    ELSE Joined(e.v.v)

Hint == <<"... (use -p ", "license", " to see full ", "license", ")">>

\* C7: in Compact mode a license value longer than 79 characters is rendered
\* as its first 79 characters followed by the hint, one of 79 or fewer is
\* rendered unchanged, and no other property is ever cut.
C7_CompactTruncation ==
    (Returned /\ ran = <<"compact">>)
        => /\ Len(Rows) = Len(RowEntries)
           /\ \A n \in DOMAIN RowEntries :
                 LET e == RowEntries[n]
                     t == ValueText(e)
                 IN Rows[n].text =
                        prettify(e.k) \o <<" : ">>
                        \o (IF e.k = "license" /\ Len(t) > 79
                            THEN SubSeq(t, 1, 79) \o Hint
                            ELSE t)

C7_Witness ==
    /\ Returned /\ ran = <<"compact">>
    /\ \E n \in DOMAIN RowEntries :
          /\ RowEntries[n].k = "license"
          /\ ~RowEntries[n].v.list
          /\ Len(RowEntries[n].v.v) = 80
    /\ \E n \in DOMAIN RowEntries :
          /\ RowEntries[n].k = "author"
          /\ ~RowEntries[n].v.list
          /\ Len(RowEntries[n].v.v) = 80

----------------------------------------------------------------------------
(* The record of a distribution found by name *)

SeededValue(key) ==
    IF key = "name" THEN pkg.pretty_name
    ELSE IF key = "version" THEN pkg.pretty_version
    ELSE pkg.description

IsSeeded ==
    /\ Len(metadata) >= 3
    /\ \A n \in 1..3 : metadata[n] = [k |-> SeededKeys[n], v |-> Scalar(SeededValue(SeededKeys[n]))]

EntryPointTexts ==
    [n \in DOMAIN dist.entry_points |->
        dist.entry_points[n].name \o <<" source: ">> \o dist.entry_points[n].value]

NoStructuredMetadata == Gathered /\ dist.found /\ ~dist.has_json

MissingJsonNotice ==
    \E n \in DOMAIN out :
        out[n] = Line("error", <<"Could not find distribution metadata: ">> \o pkg.name)

\* C8 (as written): a distribution without a json view gives an error notice,
\* no failure, and a record of exactly name, version and package_description
\* with the package's values, entry points or not.
C8_SeededOnly ==
    NoStructuredMetadata
        => /\ MissingJsonNotice
           /\ exc = NoExc
           /\ IsSeeded /\ Len(metadata) = 3

\* C8 (amended): a distribution without a json view gives an error notice, no
\* failure, and a record of name, version and package_description with the
\* package's values, followed by entry_points exactly when the distribution
\* declares at least one entry point.
C8_SeededPlusEntryPoints ==
    NoStructuredMetadata
        => /\ MissingJsonNotice
           /\ exc = NoExc
           /\ IsSeeded
           /\ IF dist.entry_points = <<>>
              THEN Len(metadata) = 3
              ELSE /\ Len(metadata) = 4
                   /\ metadata[4] = [k |-> "entry_points", v |-> List(EntryPointTexts)]

C8_Witness ==
    /\ NoStructuredMetadata
    /\ dist.entry_points # <<>>
    /\ Returned /\ exit_code = 0

----------------------------------------------------------------------------
\* C9: with structured metadata the record's keys are the seeded keys, the
\* distribution's keys, and entry_points only when there is an entry point
\* (then a non-empty list); a distribution value replaces a seeded one in
\* place, so name, version, package_description are always the first keys.
C9_MergedRecord ==
    (Gathered /\ dist.found /\ dist.has_json)
        => /\ KeySet(metadata) =
                  {"name", "version", "package_description"}
                  \cup KeySet(dist.json)
                  \cup (IF dist.entry_points = <<>> THEN {} ELSE {"entry_points"})
           /\ Cardinality(KeySet(metadata)) = Len(metadata)
           /\ SubSeq(Keys(metadata), 1, 3) = SeededKeys
           /\ \A n \in DOMAIN metadata :
                 LET key == metadata[n].k
                 IN metadata[n].v =
                        IF key = "entry_points" THEN List(EntryPointTexts)
                        ELSE IF HasKey(dist.json, key) THEN Get(dist.json, key)
                        ELSE Scalar(SeededValue(key))
           /\ HasKey(metadata, "entry_points") => Get(metadata, "entry_points").v # <<>>

C9_Witness ==
    /\ Gathered /\ dist.found /\ dist.has_json
    /\ Len(dist.json) = 2
    /\ dist.json[2].k = "name"
    /\ dist.entry_points # <<>>

----------------------------------------------------------------------------
(* Order of validation and rendering *)

Precedence ==
    IF opts.list_properties THEN "list_properties"
    ELSE IF opts.json THEN "json"
    ELSE IF opts.compact THEN "compact"
    ELSE "normal"

JsonDocuments_Written == SelectSeq(err, IsJsonDocument)

\* What each renderer leaves behind
Evidence(renderer) ==
    IF renderer = "json" THEN Len(JsonDocuments_Written) = 1 /\ Rendered = <<>>
    ELSE /\ JsonDocuments_Written = <<>>
         /\ IF renderer = "compact" THEN \A n \in DOMAIN Rendered : Rendered[n].style = "row"
            ELSE IF renderer = "normal"
            THEN \A n \in DOMAIN Rendered : Rendered[n].style \in {"b_info", "c1", "c2", ""}
            ELSE Len(Rendered) = 2 /\ Rendered[1].style = "b"

====
